---------------------------- MODULE Spec2Model ----------------------------
(***************************************************************************)
(* Model of RemoveDuplicateImages: remove_duplicate_images.py (main,       *)
(* process_directory_images) and utils.py (sign_image, move_file_to_dir,   *)
(* move_files, remove_files).                                              *)
(*                                                                         *)
(* A path is a record [dir, name]; a name is a sequence of characters so   *)
(* that the rename of move_file_to_dir (stem + decimal digits) is computed *)
(* as the code computes it.  The file system is a function from the paths  *)
(* of the existing files to their content; a content carries the path the  *)
(* file had when the run started (its identity) and its fingerprint        *)
(* (0: the fingerprint provider raises on it).                             *)
(*                                                                         *)
(* Directory names are interchangeable, so the main directory is always    *)
(* called X and the first extra directory that is not X is called Y.       *)
(***************************************************************************)
EXTENDS Integers, Sequences, FiniteSets, TLC

\* ------------------------------------------------------------------ bounds
MaxExtra == 1      \* extra directories on the command line
MaxFiles == 2      \* files present when the run starts
MaxJobs == 1       \* largest value given to -j (no -j: the default)

\* --------------------------------------------------------------- constants
DefaultJobs == 8   \* default of -j / MAX_WORKERS
RandMax == 10      \* random.randint(0, 10)

Dirs == {"X", "Y", "Z"}
NoDir == "none"
Names == {<<"a">>, <<"b">>}
Corrupt == 0
Sigs == 1..MaxFiles

VARIABLES
    argv,              \* the command line: [dirs, o, j, v]
    fs0, existing0,    \* the file system when main() was called
    fs, existing,      \* files (path -> content) and directories
    pc, ret,           \* position of main(); its return / exit code
    dir_list, output_directory, MAX_WORKERS,
    outer,             \* main's pool: one process_directory_images task per dir_list entry
    sign,              \* per outer task: its inner pool of sign_image tasks
    mi, images_id,     \* merge loop index and the global index
    files_to_move, duplicate_files,
    mv, rm,            \* pools of move_files and remove_files
    ci                 \* cleanup loop index

vars == <<argv, fs0, existing0, fs, existing, pc, ret, dir_list, output_directory,
          MAX_WORKERS, outer, sign, mi, images_id, files_to_move, duplicate_files,
          mv, rm, ci>>

\* ----------------------------------------------------------------- helpers
Path(d, n) == [dir |-> d, name |-> n]

Range(s) == {s[k] : k \in DOMAIN s}

Perms(S) == {p \in [1..Cardinality(S) -> S] : \A x \in S : \E k \in DOMAIN p : p[k] = x}

FilesIn(f, d) == {p \in DOMAIN f : p.dir = d}

\* decimal digits of r, as characters
Digit(n) == <<"0", "1", "2", "3", "4", "5", "6", "7", "8", "9">>[n + 1]

Digits(r) == IF r < 10 THEN <<Digit(r)>> ELSE <<Digit(r \div 10), Digit(r % 10)>>

\* f"{src_file.stem}{random.randint(0, 10)}" for the drawn number r
WithStem(p, r) == Path(p.dir, p.name \o Digits(r))

\* a dict as the sequence of its items in insertion order: d[sig].append(file)
DictAppend(d, sg, file) ==
    IF \E k \in DOMAIN d : d[k].sig = sg
    THEN [k \in DOMAIN d |-> IF d[k].sig = sg
                             THEN [d[k] EXCEPT !.files = Append(@, file)]
                             ELSE d[k]]
    ELSE Append(d, [sig |-> sg, files |-> <<file>>])

\* d[sig].extend(files)
RECURSIVE DictExtend(_, _, _)
DictExtend(d, sg, files) ==
    IF files = <<>> THEN d
    ELSE DictExtend(DictAppend(d, sg, Head(files)), sg, Tail(files))

\* the loop over as_completed(submissions): results is the sequence of
\* (image, signature) pairs of the tasks that returned, in arrival order
RECURSIVE SignatureMap(_, _)
SignatureMap(d, results) ==
    IF results = <<>> THEN d
    ELSE SignatureMap(DictAppend(d, Head(results).signature, Head(results).image),
                      Tail(results))

\* for (signature, image_files) in signature_map.items(): images_id[signature].extend(image_files)
RECURSIVE MergeMap(_, _)
MergeMap(ids, m) ==
    IF m = <<>> THEN ids
    ELSE MergeMap(DictExtend(ids, Head(m).sig, Head(m).files), Tail(m))

Running(pool, states) == Cardinality({k \in DOMAIN pool : pool[k].st \in states})

\* a pool that starts a thread for every task it is given
MayStartUnbounded(pool, k, states) ==
    /\ pool[k].st = "queued"
    /\ \A h \in 1..(k - 1) : pool[h].st # "queued"

\* ThreadPoolExecutor: tasks leave the work queue in submission order, and at
\* most max_workers of them run
MayStart(pool, k, states) ==
    /\ pool[k].st = "queued"
    /\ \A h \in 1..(k - 1) : pool[h].st # "queued"
    /\ Running(pool, states) < MAX_WORKERS

\* a pool that is left without waiting for its tasks (shutdown(wait=False))
FinishedNoWait(pool) == TRUE

Finished(pool) == \A k \in DOMAIN pool : pool[k].st \in {"ok", "failed"}

\* --------------------------------------------------------------------- Init
ExtraSeqs == UNION {[1..n -> Dirs] : n \in 1..MaxExtra}

\* the first extra directory other than X is Y
Canonical(e) ==
    \A k \in DOMAIN e : e[k] = "Z" => \E h \in 1..(k - 1) : e[h] = "Y"

DirArgs == {<<>>, <<"X">>} \cup {<<"X">> \o e : e \in {x \in ExtraSeqs : Canonical(x)}}

\* the command lines: j = 0 stands for no -j, and -v is drawn only where it
\* changes the argument count's verdict (it configures logging, nothing else)
Argvs ==
    {a \in [dirs : DirArgs, o : Dirs \cup {NoDir}, j : 0..MaxJobs, v : BOOLEAN] :
        a.v => Len(a.dirs) < 2}

\* len(sys.argv): the program name, the directories, and two tokens per option
Argc(a) ==
    1 + Len(a.dirs) + (IF a.o # NoDir THEN 2 ELSE 0) + (IF a.j # 0 THEN 2 ELSE 0)
      + (IF a.v THEN 2 ELSE 0)

\* the directories the command line names
Named(a) == Range(a.dirs) \cup ({a.o} \ {NoDir})

\* fingerprints are interchangeable: a layout uses 1..n for some n
FirstUse(sg) ==
    \A p \in DOMAIN sg : \A s \in 1..(sg[p] - 1) : \E q \in DOMAIN sg : sg[q] = s

\* the files of a run: at most MaxFiles, in the existing directories the
\* command line names (no other directory is read or written)
Layouts(a, ex) ==
    LET used == Named(a) \cap ex
        paths == {Path(d, n) : d \in used, n \in Names}
    IN  UNION {[S -> Sigs \cup {Corrupt}] : S \in {T \in SUBSET paths : Cardinality(T) <= MaxFiles}}

Init ==
    /\ argv \in Argvs
    /\ existing0 \in {ex \in SUBSET Dirs : Dirs \ ex \subseteq Named(argv)}
    /\ \E sg \in Layouts(argv, existing0) :
          /\ FirstUse(sg)
          /\ fs0 = [p \in DOMAIN sg |-> [orig |-> p, sig |-> sg[p]]]
    /\ fs = fs0
    /\ existing = existing0
    /\ pc = "start"
    /\ ret = 0
    /\ dir_list = <<>>
    /\ output_directory = NoDir
    /\ MAX_WORKERS = DefaultJobs
    /\ outer = <<>>
    /\ sign = <<>>
    /\ mi = 1
    /\ images_id = <<>>
    /\ files_to_move = <<>>
    /\ duplicate_files = <<>>
    /\ mv = <<>>
    /\ rm = <<>>
    /\ ci = 2

\* ------------------------------------------------------------------ main()
\* lines 160-228: argument check, parse, validation, output directory, and the
\* submission of one process_directory_images task per entry of dir_list
InsertOutput(dl, out) == IF out \in Range(dl) THEN dl ELSE <<out>> \o dl

MakeOutput(ex, out) == ex \cup {out}

\* a validation that looks at the main directory only
ValidatedMainOnly(dl, ex) == dl[1] \in ex

\* lines 188-193: every directory of dir_list is an existing directory
Validated(dl, ex) == \A k \in DOMAIN dl : dl[k] \in ex

main_start ==
    /\ pc = "start"
    /\ IF Argc(argv) < 3
       THEN /\ pc' = "done"
            /\ ret' = -1
            /\ UNCHANGED <<existing, dir_list, output_directory, MAX_WORKERS, outer, sign>>
       ELSE IF Len(argv.dirs) < 2
       THEN \* arg_parser.parse_args: error() ends the process with sys.exit(2)
            /\ pc' = "exit"
            /\ ret' = 2
            /\ UNCHANGED <<existing, dir_list, output_directory, MAX_WORKERS, outer, sign>>
       ELSE /\ MAX_WORKERS' = IF argv.j = 0 THEN DefaultJobs ELSE argv.j
            /\ IF ~Validated(argv.dirs, existing)
               THEN /\ pc' = "done"
                    /\ ret' = -2
                    /\ dir_list' = argv.dirs
                    /\ output_directory' = argv.o
                    /\ UNCHANGED <<existing, outer, sign>>
               ELSE LET out == IF argv.o = NoDir THEN argv.dirs[1] ELSE argv.o
                        dl == InsertOutput(argv.dirs, out)
                    IN  /\ pc' = "scan"
                        /\ ret' = ret
                        /\ output_directory' = out
                        /\ dir_list' = dl
                        /\ existing' = MakeOutput(existing, out)
                        /\ outer' = [k \in DOMAIN dl |-> [st |-> "queued", result |-> <<>>]]
                        /\ sign' = [k \in DOMAIN dl |-> <<>>]
    /\ UNCHANGED <<argv, fs0, existing0, fs, mi, images_id, files_to_move,
                   duplicate_files, mv, rm, ci>>

\* ------------------------------------------- process_directory_images(directory)
\* lines 68-76: the task starts, lists the directory (in file-system order) and
\* submits one sign_image per entry to its own pool
directory_start(i) ==
    /\ pc = "scan"
    /\ MayStart(outer, i, {"running"})
    /\ \E order \in Perms(FilesIn(fs, dir_list[i])) :
          sign' = [sign EXCEPT ![i] = [k \in DOMAIN order |->
                                          [image |-> order[k], st |-> "queued"]]]
    /\ outer' = [outer EXCEPT ![i].st = "running"]
    /\ UNCHANGED <<argv, fs0, existing0, fs, existing, pc, ret, dir_list,
                   output_directory, MAX_WORKERS, mi, images_id, files_to_move,
                   duplicate_files, mv, rm, ci>>

\* a worker of the inner pool takes the next sign_image task
sign_start(i, k) ==
    /\ pc = "scan"
    /\ outer[i].st = "running"
    /\ k \in DOMAIN sign[i]
    /\ MayStart(sign[i], k, {"running"})
    /\ sign' = [sign EXCEPT ![i][k].st = "running"]
    /\ UNCHANGED <<argv, fs0, existing0, fs, existing, pc, ret, dir_list,
                   output_directory, MAX_WORKERS, outer, mi, images_id,
                   files_to_move, duplicate_files, mv, rm, ci>>

\* utils.sign_image / get_image_signature: Image.open and phash raise on a
\* file that is no readable image
Signs(f, image) == image \in DOMAIN f /\ f[image].sig # Corrupt

sign_image(i, k) ==
    /\ pc = "scan"
    /\ k \in DOMAIN sign[i]
    /\ sign[i][k].st = "running"
    /\ sign' = [sign EXCEPT ![i][k].st =
                   IF Signs(fs, sign[i][k].image) THEN "ok" ELSE "failed"]
    /\ UNCHANGED <<argv, fs0, existing0, fs, existing, pc, ret, dir_list,
                   output_directory, MAX_WORKERS, outer, mi, images_id,
                   files_to_move, duplicate_files, mv, rm, ci>>

\* a collection that records every task, whatever its outcome
ResultsAll(tasks, order) ==
    [h \in DOMAIN order |-> [image |-> tasks[order[h]].image,
                             signature |-> fs[tasks[order[h]].image].sig]]

\* lines 78-91: after the pool has shut down, the results are read in the
\* order as_completed yields them and the per-directory map is returned
Results(tasks, order) ==
    LET ok == SelectSeq(order, LAMBDA k : tasks[k].st = "ok")
    IN  [h \in DOMAIN ok |-> [image |-> tasks[ok[h]].image,
                              signature |-> fs[tasks[ok[h]].image].sig]]

directory_collect(i) ==
    /\ pc = "scan"
    /\ outer[i].st = "running"
    /\ Finished(sign[i])
    /\ \E order \in Perms(DOMAIN sign[i]) :
          outer' = [outer EXCEPT ![i] =
                       [st |-> "ok", result |-> SignatureMap(<<>>, Results(sign[i], order))]]
    /\ UNCHANGED <<argv, fs0, existing0, fs, existing, pc, ret, dir_list,
                   output_directory, MAX_WORKERS, sign, mi, images_id,
                   files_to_move, duplicate_files, mv, rm, ci>>

\* lines 230-237: main waits for the futures in submission order and merges
\* each map into the global index
\* a merge that assigns (images_id[signature] = image_files) instead of extending
RECURSIVE MergeAssign(_, _)
MergeAssign(ids, m) ==
    IF m = <<>> THEN ids
    ELSE MergeAssign(
           IF \E k \in DOMAIN ids : ids[k].sig = Head(m).sig
           THEN [k \in DOMAIN ids |-> IF ids[k].sig = Head(m).sig THEN Head(m) ELSE ids[k]]
           ELSE Append(ids, Head(m)),
           Tail(m))

\* a merge that puts the files of the map in front of those already indexed
RECURSIVE MergePrepend(_, _)
MergePrepend(ids, m) ==
    IF m = <<>> THEN ids
    ELSE MergePrepend(
           IF \E k \in DOMAIN ids : ids[k].sig = Head(m).sig
           THEN [k \in DOMAIN ids |->
                    IF ids[k].sig = Head(m).sig
                    THEN [ids[k] EXCEPT !.files = Head(m).files \o ids[k].files]
                    ELSE ids[k]]
           ELSE Append(ids, Head(m)),
           Tail(m))

Merge(ids, m) == MergeMap(ids, m)

main_merge ==
    /\ pc = "scan"
    /\ mi \in DOMAIN outer
    /\ outer[mi].st = "ok"
    /\ images_id' = Merge(images_id, outer[mi].result)
    /\ mi' = mi + 1
    /\ UNCHANGED <<argv, fs0, existing0, fs, existing, pc, ret, dir_list,
                   output_directory, MAX_WORKERS, outer, sign, files_to_move,
                   duplicate_files, mv, rm, ci>>

\* lines 239-246: the plan
\* a planner that keeps a member already in the output directory when there
\* is one, and moves the first member only when there is none
RECURSIVE PlanMoveResident(_, _)
PlanMoveResident(ids, out) ==
    IF ids = <<>> THEN <<>>
    ELSE (IF \A h \in DOMAIN Head(ids).files : Head(ids).files[h].dir # out
          THEN <<Head(ids).files[1]>> ELSE <<>>)
         \o PlanMoveResident(Tail(ids), out)

RECURSIVE PlanMove(_, _)
PlanMove(ids, out) ==
    IF ids = <<>> THEN <<>>
    ELSE (IF Head(ids).files[1].dir # out THEN <<Head(ids).files[1]>> ELSE <<>>)
         \o PlanMove(Tail(ids), out)

RECURSIVE PlanDelete(_, _)
PlanDelete(ids, out) ==
    IF ids = <<>> THEN <<>>
    ELSE (IF Head(ids).files[1].dir # out THEN Tail(Head(ids).files) ELSE <<>>)
         \o PlanDelete(Tail(ids), out)

main_plan ==
    /\ pc = "scan"
    /\ mi > Len(outer)
    /\ Finished(outer)
    /\ files_to_move' = PlanMove(images_id, output_directory)
    /\ duplicate_files' = PlanDelete(images_id, output_directory)
    /\ pc' = "move"
    /\ UNCHANGED <<argv, fs0, existing0, fs, existing, ret, dir_list,
                   output_directory, MAX_WORKERS, outer, sign, mi, images_id,
                   mv, rm, ci>>

\* ------------------------------------------------------------ utils.move_files
\* lines 251-256 and utils.py 108-111: one move_file_to_dir per file to move
move_files ==
    /\ pc = "move"
    /\ mv' = [k \in DOMAIN files_to_move |-> [src |-> files_to_move[k], st |-> "queued"]]
    /\ pc' = "moving"
    /\ UNCHANGED <<argv, fs0, existing0, fs, existing, ret, dir_list,
                   output_directory, MAX_WORKERS, outer, sign, mi, images_id,
                   files_to_move, duplicate_files, rm, ci>>

Rename(f, src, dst) ==
    [p \in (DOMAIN f \ {src}) \cup {dst} |-> IF p = dst THEN f[src] ELSE f[p]]

MoveStates == {"checked", "moving"}

\* utils.py 80-87: the destination name is taken: the source is renamed in its
\* own directory.  Path.rename replaces an existing target on POSIX and raises
\* FileExistsError on Windows; it raises when the source is gone
move_check(k) ==
    /\ pc = "moving"
    /\ MayStart(mv, k, MoveStates)
    /\ LET src == mv[k].src
           dst_file == Path(output_directory, src.name)
       IN  IF dst_file \notin DOMAIN fs
           THEN /\ mv' = [mv EXCEPT ![k].st = "checked"]
                /\ fs' = fs
           ELSE \E r \in 0..RandMax :
                   LET new == WithStem(src, r)
                   IN  \/ /\ src \in DOMAIN fs
                          /\ fs' = Rename(fs, src, new)
                          /\ mv' = [mv EXCEPT ![k] = [src |-> new, st |-> "checked"]]
                       \/ /\ src \notin DOMAIN fs \/ new \in DOMAIN fs
                          /\ fs' = fs
                          /\ mv' = [mv EXCEPT ![k].st = "failed"]
    /\ UNCHANGED <<argv, fs0, existing0, existing, pc, ret, dir_list,
                   output_directory, MAX_WORKERS, outer, sign, mi, images_id,
                   files_to_move, duplicate_files, rm, ci>>

\* shutil.move(src_file, dst_dir): raises when the destination path exists
move_exists(k) ==
    /\ pc = "moving"
    /\ mv[k].st = "checked"
    /\ mv' = [mv EXCEPT ![k].st =
                 IF Path(output_directory, mv[k].src.name) \in DOMAIN fs
                 THEN "failed" ELSE "moving"]
    /\ UNCHANGED <<argv, fs0, existing0, fs, existing, pc, ret, dir_list,
                   output_directory, MAX_WORKERS, outer, sign, mi, images_id,
                   files_to_move, duplicate_files, rm, ci>>

\* shutil.move: os.rename(src, real_dst), or copy and unlink when it raises;
\* either way a file that appeared at real_dst meanwhile is replaced
ShutilMove(f, src, out) == Rename(f, src, Path(out, src.name))

move_rename(k) ==
    /\ pc = "moving"
    /\ mv[k].st = "moving"
    /\ IF mv[k].src \in DOMAIN fs
       THEN /\ fs' = ShutilMove(fs, mv[k].src, output_directory)
            /\ mv' = [mv EXCEPT ![k].st = "ok"]
       ELSE /\ fs' = fs
            /\ mv' = [mv EXCEPT ![k].st = "failed"]
    /\ UNCHANGED <<argv, fs0, existing0, existing, pc, ret, dir_list,
                   output_directory, MAX_WORKERS, outer, sign, mi, images_id,
                   files_to_move, duplicate_files, rm, ci>>

\* utils.py 90 and 112-115: shutil.move raises for a reason outside the files
\* of the run (permissions, a full or read-only device); the file stays where
\* it is and the exception is logged by move_files
move_raises(k) ==
    /\ pc = "moving"
    /\ mv[k].st = "moving"
    /\ mv' = [mv EXCEPT ![k].st = "failed"]
    /\ UNCHANGED <<argv, fs0, existing0, fs, existing, pc, ret, dir_list,
                   output_directory, MAX_WORKERS, outer, sign, mi, images_id,
                   files_to_move, duplicate_files, rm, ci>>

\* ---------------------------------------------------------- utils.remove_files
\* lines 264-268 and utils.py 131-134: one os.remove per duplicate file, after
\* the pool of move_files has shut down
remove_files ==
    /\ pc = "moving"
    /\ Finished(mv)
    /\ rm' = [k \in DOMAIN duplicate_files |-> [file |-> duplicate_files[k], st |-> "queued"]]
    /\ pc' = "removing"
    /\ UNCHANGED <<argv, fs0, existing0, fs, existing, ret, dir_list,
                   output_directory, MAX_WORKERS, outer, sign, mi, images_id,
                   files_to_move, duplicate_files, mv, ci>>

remove_start(k) ==
    /\ pc = "removing"
    /\ MayStart(rm, k, {"running"})
    /\ rm' = [rm EXCEPT ![k].st = "running"]
    /\ UNCHANGED <<argv, fs0, existing0, fs, existing, pc, ret, dir_list,
                   output_directory, MAX_WORKERS, outer, sign, mi, images_id,
                   files_to_move, duplicate_files, mv, ci>>

OsRemove(f, file) == [p \in DOMAIN f \ {file} |-> f[p]]

os_remove(k) ==
    /\ pc = "removing"
    /\ rm[k].st = "running"
    /\ IF rm[k].file \in DOMAIN fs
       THEN /\ fs' = OsRemove(fs, rm[k].file)
            /\ rm' = [rm EXCEPT ![k].st = "ok"]
       ELSE /\ fs' = fs
            /\ rm' = [rm EXCEPT ![k].st = "failed"]
    /\ UNCHANGED <<argv, fs0, existing0, existing, pc, ret, dir_list,
                   output_directory, MAX_WORKERS, outer, sign, mi, images_id,
                   files_to_move, duplicate_files, mv, ci>>

\* utils.py 133 and 136-140: os.remove raises for a reason outside the files
\* of the run; the file stays and the exception is logged by remove_files
remove_raises(k) ==
    /\ pc = "removing"
    /\ rm[k].st = "running"
    /\ rm' = [rm EXCEPT ![k].st = "failed"]
    /\ UNCHANGED <<argv, fs0, existing0, fs, existing, pc, ret, dir_list,
                   output_directory, MAX_WORKERS, outer, sign, mi, images_id,
                   files_to_move, duplicate_files, mv, ci>>

\* ------------------------------------------------------------------- cleanup
\* lines 270-274: for directory in dir_list[1:]: shutil.rmtree(directory)
CleanupList(dl) == Tail(dl)

Rmtree(f, d) == [p \in {q \in DOMAIN f : q.dir # d} |-> f[p]]

main_cleanup ==
    /\ pc = "removing"
    /\ Finished(rm)
    /\ ci - 1 \in DOMAIN CleanupList(dir_list)
    /\ LET directory == CleanupList(dir_list)[ci - 1]
       IN  IF directory \in existing
           THEN /\ fs' = Rmtree(fs, directory)
                /\ existing' = existing \ {directory}
                /\ ci' = ci + 1
                /\ pc' = pc
           ELSE \* FileNotFoundError leaves main()
                /\ pc' = "error"
                /\ UNCHANGED <<fs, existing, ci>>
    /\ UNCHANGED <<argv, fs0, existing0, ret, dir_list, output_directory,
                   MAX_WORKERS, outer, sign, mi, images_id, files_to_move,
                   duplicate_files, mv, rm>>

\* lines 276-281
main_return ==
    /\ pc = "removing"
    /\ Finished(rm)
    /\ ci - 1 > Len(CleanupList(dir_list))
    /\ pc' = "done"
    /\ ret' = 0
    /\ UNCHANGED <<argv, fs0, existing0, fs, existing, dir_list, output_directory,
                   MAX_WORKERS, outer, sign, mi, images_id, files_to_move,
                   duplicate_files, mv, rm, ci>>

\* ------------------------------------------------------------------- claims
\* the files the run scans, and those the fingerprint provider accepts
Scanned == {p \in DOMAIN fs0 : p.dir \in Range(dir_list)}

Good == {p \in Scanned : fs0[p].sig # Corrupt}

CorruptFiles == {p \in Scanned : fs0[p].sig = Corrupt}

Group(s) == {p \in Scanned : fs0[p].sig = s}

InDict(d, p) == \E k \in DOMAIN d : p \in Range(d[k].files)

Returned0 == pc = "done" /\ ret = 0

Planned == pc \in {"move", "moving", "removing", "error"} \/ Returned0

MergeDone == Planned \/ (pc = "scan" /\ mi > Len(outer))

\* no move and no deletion of a file of g raised
NoItemError(g) ==
    /\ \A k \in DOMAIN mv : files_to_move[k] \in g => mv[k].st = "ok"
    /\ \A k \in DOMAIN rm : duplicate_files[k] \in g => rm[k].st = "ok"

\* C1: after main() has returned 0, of every fingerprint group without item
\* errors exactly one file exists, and it is in the output directory
C1_OneSurvivor ==
    Returned0 =>
        \A s \in Sigs :
            (Group(s) # {} /\ NoItemError(Group(s))) =>
                LET alive == {q \in DOMAIN fs : fs[q].sig = s}
                IN  /\ Cardinality(alive) = 1
                    /\ output_directory \in existing
                    /\ \A q \in alive : q.dir = output_directory

\* C2: after main() has returned 0, no directory of the processed list other
\* than the output directory exists
C2_SourcesRemoved ==
    Returned0 => \A d \in Range(dir_list) : d # output_directory => d \notin existing

\* C3: once the run has passed validation the output directory exists, up to
\* and including the state main() returns 0 in: cleanup never removes it
C3_OutputKept ==
    (pc \in {"scan", "move", "moving", "removing"} \/ Returned0)
        => output_directory \in existing

\* C4: once every directory's map is merged, each fingerprinted image is in
\* exactly one list of the global index, and two of them share a list exactly
\* when their fingerprints are equal
C4_Grouping ==
    MergeDone =>
        /\ \A p \in Good :
              Cardinality({k \in DOMAIN images_id : p \in Range(images_id[k].files)}) = 1
        /\ \A p, q \in Good :
              (\E k \in DOMAIN images_id : {p, q} \subseteq Range(images_id[k].files))
                  <=> fs0[p].sig = fs0[q].sig

\* two images of different directories, with equal fingerprints, merged
C4_Witness ==
    /\ MergeDone
    /\ \E p, q \in Good : p.dir # q.dir /\ fs0[p].sig = fs0[q].sig

\* C5: when the argument count is below 3, or a supplied directory does not
\* exist, main() returns -1 resp. -2, the file system is as it was, and no
\* scanning task was submitted; the parser's own exit changes nothing either
C5_ValidationFailure ==
    LET tooFew == Argc(argv) < 3
        missing == Len(argv.dirs) >= 2 /\ \E k \in DOMAIN argv.dirs : argv.dirs[k] \notin existing0
    IN  /\ (pc # "start" /\ (tooFew \/ missing)) =>
              /\ pc = "done"
              /\ ret = (IF tooFew THEN -1 ELSE -2)
              /\ fs = fs0
              /\ existing = existing0
              /\ outer = <<>>
              /\ sign = <<>>
        /\ pc = "exit" => (fs = fs0 /\ existing = existing0 /\ outer = <<>>)

\* an extra directory is missing, and so is the directory -o names
C5_Witness ==
    /\ pc = "done"
    /\ ret = -2
    /\ argv.dirs[1] \in existing0
    /\ argv.o # NoDir
    /\ argv.o \notin existing
    /\ DOMAIN fs # {}

\* C6: with fewer than two directories on the command line main() returns -1
C6_TooFewDirectories ==
    (pc # "start" /\ Len(argv.dirs) < 2) => (pc = "done" /\ ret = -1)

\* C7: a file whose fingerprint computation raises is in no per-directory
\* map, not in the global index, not in the move list and not in the delete
\* list; every other file's result is recorded; and the failure does not end
\* the run: main() returns 0, and no exception leaves main() other than
\* cleanup's, raised for a directory that is already gone
C7_FailedFingerprintDropped ==
    /\ \A p \in CorruptFiles :
          /\ \A i \in DOMAIN outer : ~InDict(outer[i].result, p)
          /\ ~InDict(images_id, p)
          /\ p \notin Range(files_to_move)
          /\ p \notin Range(duplicate_files)
    /\ \A i \in DOMAIN outer :
          outer[i].st = "ok" =>
              \A p \in Good : p.dir = dir_list[i] => InDict(outer[i].result, p)
    /\ MergeDone => \A p \in Good : InDict(images_id, p)
    /\ (pc = "done" /\ \E i \in DOMAIN sign : \E k \in DOMAIN sign[i] : sign[i][k].st = "failed")
          => ret = 0
    /\ pc = "error" =>
          /\ Finished(rm)
          /\ ci - 1 \in DOMAIN CleanupList(dir_list)
          /\ CleanupList(dir_list)[ci - 1] \notin existing

\* a run that returned 0 with a corrupt file beside a good one
C7_Witness ==
    /\ Returned0
    /\ \E p \in CorruptFiles : \E q \in Good : p.dir = q.dir

\* C8: if the output directory did not exist when main() was called, then
\* after main() has returned 0 it exists and holds one file of every
\* fingerprint group
C8_OutputCreated ==
    (Returned0 /\ output_directory \notin existing0) =>
        /\ output_directory \in existing
        /\ \A s \in Sigs :
              Group(s) # {} =>
                  Cardinality({q \in DOMAIN fs : q.dir = output_directory /\ fs[q].sig = s}) = 1

\* C9: in a run that starts with every file in the output directory, the plan
\* is empty, and after main() has returned 0 the files of the output
\* directory are the ones it held
C9_Idempotent ==
    (pc # "start" /\ \A p \in DOMAIN fs0 : p.dir = output_directory) =>
        /\ Planned => (files_to_move = <<>> /\ duplicate_files = <<>>)
        /\ Returned0 => fs = fs0

\* C10: the plan schedules every member but the first of every list of the
\* global index for deletion, and no member of a list of one
C10_DeleteRest ==
    Planned =>
        \A k \in DOMAIN images_id :
            LET L == images_id[k].files
            IN  /\ \A h \in 2..Len(L) : L[h] \in Range(duplicate_files)
                /\ Len(L) = 1 => L[1] \notin Range(duplicate_files)

\* the first members of the lists of the global index that are outside the
\* output directory, in the order of the index
KeepOutside ==
    SelectSeq([k \in DOMAIN images_id |-> images_id[k].files[1]],
              LAMBDA r : r.dir # output_directory)

\* C11: the keep record of every list of the global index is its first
\* member r0: the move list holds r0 exactly when r0 is outside the output
\* directory, also when a later member is in the output directory, and it
\* holds nothing but such first members, each once
C11_KeepFirst ==
    Planned =>
        /\ files_to_move = KeepOutside
        /\ \A k \in DOMAIN images_id :
              LET L == images_id[k].files
              IN  /\ L[1] \in Range(files_to_move) <=> L[1].dir # output_directory
                  /\ \A h \in 2..Len(L) :
                        L[h] # L[1] => L[h] \notin Range(files_to_move)

\* a planned list whose first member is outside the output directory while a
\* later member is in it
C11_Witness ==
    /\ Planned
    /\ \E k \in DOMAIN images_id :
          LET L == images_id[k].files
          IN  /\ L[1].dir # output_directory
              /\ \E h \in 2..Len(L) : L[h].dir = output_directory
\* the run has passed validation
Validating == pc = "scan" \/ Planned

\* the order the directories are processed in: the output directory first
\* when it is not among the directories of the command line, then these
ProcessingOrder ==
    IF output_directory \in Range(argv.dirs)
    THEN argv.dirs
    ELSE <<output_directory>> \o argv.dirs

\* C12: the directories are processed in the order output directory (when it
\* is not among the inputs), main directory, extra directories; and at every
\* time, in every list of the global index, a record followed by a record of
\* another directory is of a directory that comes earlier in that order
C12_IndexOrder ==
    Validating =>
        /\ dir_list = ProcessingOrder
        /\ \A k \in DOMAIN images_id :
              LET L == images_id[k].files
              IN  \A h1, h2 \in DOMAIN L :
                     (h1 < h2 /\ L[h1].dir # L[h2].dir) =>
                         \E i, j \in DOMAIN dir_list :
                            /\ i < j
                            /\ dir_list[i] = L[h1].dir
                            /\ dir_list[j] = L[h2].dir

\* a list of the merged index with records of two directories, from a scan
\* whose directory tasks ran side by side
C12_Witness ==
    /\ MergeDone
    /\ MAX_WORKERS > 1
    /\ \E k \in DOMAIN images_id :
          \E h1, h2 \in DOMAIN images_id[k].files :
             images_id[k].files[h1].dir # images_id[k].files[h2].dir
\* a task of some pool is being executed by a worker
TaskRunning ==
    \/ \E i \in DOMAIN outer : outer[i].st = "running"
    \/ \E i \in DOMAIN sign : \E k \in DOMAIN sign[i] : sign[i][k].st = "running"
    \/ \E k \in DOMAIN mv : mv[k].st \in MoveStates
    \/ \E k \in DOMAIN rm : rm[k].st = "running"

TaskQueued ==
    \/ \E i \in DOMAIN outer : outer[i].st = "queued"
    \/ \E i \in DOMAIN sign : \E k \in DOMAIN sign[i] : sign[i][k].st = "queued"
    \/ \E k \in DOMAIN mv : mv[k].st = "queued"
    \/ \E k \in DOMAIN rm : rm[k].st = "queued"

\* directory task i has returned, and so has every fingerprint task of it
Signed(i) ==
    /\ outer[i].st = "ok"
    /\ \A k \in DOMAIN sign[i] : sign[i][k].st \in {"ok", "failed"}

AllMoved ==
    /\ DOMAIN mv = DOMAIN files_to_move
    /\ \A k \in DOMAIN mv : mv[k].st \in {"ok", "failed"}

AllRemoved ==
    /\ DOMAIN rm = DOMAIN duplicate_files
    /\ \A k \in DOMAIN rm : rm[k].st \in {"ok", "failed"}

\* steps: the plan is computed, a deletion starts, a directory is removed
PlanStep ==
    \/ pc = "scan" /\ pc' = "move"
    \/ files_to_move' # files_to_move
    \/ duplicate_files' # duplicate_files

DeleteStarts ==
    \E k \in DOMAIN rm' :
       rm'[k].st # "queued" /\ (k \in DOMAIN rm => rm[k].st = "queued")

DirectoryRemoved == \E d \in existing : d \notin existing'

PhaseBarriers ==
    /\ PlanStep => (mi > Len(outer) /\ \A i \in DOMAIN outer : Signed(i))
    /\ DeleteStarts => AllMoved
    /\ DirectoryRemoved => AllRemoved

\* C13 as stated: the plan is computed only after every fingerprint task has
\* finished and every map is merged, no deletion starts before every move
\* has finished, no directory is removed before every deletion has finished,
\* and the global index and the plan change only while no task is running
C13_Quiescent ==
    [][/\ PhaseBarriers
       /\ (images_id' # images_id \/ PlanStep) => ~TaskRunning]_vars

\* C13, amended: the three barriers hold; the plan changes only while no task
\* is running or queued; the global index changes only by the merge of the
\* map of a directory task that has returned, all fingerprint tasks of which
\* have finished, while tasks of later directories may still be running
C13_Barriers ==
    [][/\ PhaseBarriers
       /\ PlanStep => (~TaskRunning /\ ~TaskQueued)
       /\ images_id' # images_id =>
             /\ mi \in DOMAIN outer
             /\ Signed(mi)
             /\ mi' = mi + 1
             /\ \A i \in DOMAIN outer : outer[i].st # "ok" => i > mi]_vars

\* the global index holds a merged map while a directory task is running
C13_Witness ==
    /\ pc = "scan"
    /\ mi >= 2
    /\ images_id # <<>>
    /\ \E i \in DOMAIN outer :
          outer[i].st = "running" /\ \E k \in DOMAIN sign[i] : sign[i][k].st = "running"
\* the fingerprint computations running in directories 1..i
RECURSIVE SignsRunning(_)
SignsRunning(i) ==
    IF i = 0 THEN 0
    ELSE Running(sign[i], {"running"}) + SignsRunning(i - 1)

\* C14: with the concurrency limit J = MAX_WORKERS, at no time more than J
\* fingerprint computations of one directory are running, nor more than
\* (number of directories) * J fingerprint computations in all, nor more than
\* J moves, nor more than J deletions
C14_WorkerLimit ==
    Validating =>
        /\ \A i \in DOMAIN sign : Running(sign[i], {"running"}) <= MAX_WORKERS
        /\ SignsRunning(Len(sign)) <= Len(dir_list) * MAX_WORKERS
        /\ Running(mv, MoveStates) <= MAX_WORKERS
        /\ Running(rm, {"running"}) <= MAX_WORKERS

\* the limit binds: J fingerprint computations of a directory are running
\* and another one of that directory waits in the queue
C14_Witness ==
    /\ pc = "scan"
    /\ \E i \in DOMAIN sign :
          /\ Running(sign[i], {"running"}) = MAX_WORKERS
          /\ \E k \in DOMAIN sign[i] : sign[i][k].st = "queued"
\* a move or a deletion has raised
ItemFailed ==
    \/ \E k \in DOMAIN mv : mv[k].st = "failed"
    \/ \E k \in DOMAIN rm : rm[k].st = "failed"

\* the only exception that leaves main() is cleanup's, for a directory that
\* is already gone
CleanupErrorOnly ==
    pc = "error" =>
        /\ AllRemoved
        /\ ci - 1 \in DOMAIN CleanupList(dir_list)
        /\ CleanupList(dir_list)[ci - 1] \notin existing

\* C15: a failed move or deletion is isolated: the deletion phase begins only
\* when every move has been attempted, and cleanup only when every deletion
\* has been attempted; the failure neither stops the run nor makes main()
\* return anything but 0; and the file of a failed move is in its source
\* directory as long as that directory exists
C15_FailureIsolated ==
    ItemFailed =>
        /\ (pc \in {"removing", "error", "done"}) => AllMoved
        /\ (ci > 2 \/ pc \in {"error", "done"}) => AllRemoved
        /\ pc = "done" => ret = 0
        /\ CleanupErrorOnly
        /\ \A k \in DOMAIN mv :
              (mv[k].st = "failed" /\ files_to_move[k].dir \in existing) =>
                  \E q \in DOMAIN fs :
                     /\ q.dir = files_to_move[k].dir
                     /\ fs[q].orig = files_to_move[k]
\* the move phase is over and no deletion has begun
MovePhaseOver ==
    /\ pc = "removing"
    /\ ci = 2
    /\ \A k \in DOMAIN rm : rm[k].st = "queued"

\* the name of the k-th file to move is taken in the output directory, by a
\* file that was there before the run or by another file of the move list
NameTaken(k) ==
    \/ Path(output_directory, files_to_move[k].name) \in DOMAIN fs0
    \/ \E h \in DOMAIN files_to_move :
          h # k /\ files_to_move[h].name = files_to_move[k].name

\* the file that was at path p when the run began is in the output directory
InOutput(p) ==
    \E q \in DOMAIN fs : q.dir = output_directory /\ fs[q].orig = p

\* C16: when the move phase is over, every file the output directory held
\* before is still there, unchanged, and every file to move whose name was
\* taken is there too, so that both files exist under distinct names
C16_NoOverwrite ==
    MovePhaseOver =>
        /\ \A p \in FilesIn(fs0, output_directory) :
              p \in DOMAIN fs /\ fs[p] = fs0[p]
        /\ \A k \in DOMAIN files_to_move :
              NameTaken(k) => InOutput(files_to_move[k])
NoRepeats(list) ==
    \A h1, h2 \in DOMAIN list : h1 # h2 => list[h1] # list[h2]

\* cleanup is about to begin
CleanupStarts == pc = "removing" /\ ci = 2 /\ AllRemoved

\* C17: whatever directories are listed, also with one listed twice, the move
\* list and the delete list have no repeated entry and no common entry, the
\* first member of a list of the global index is not in the delete list, and
\* when cleanup begins the first member of every list still exists
C17_DisjointPlan ==
    Planned =>
        /\ NoRepeats(files_to_move)
        /\ NoRepeats(duplicate_files)
        /\ Range(files_to_move) \cap Range(duplicate_files) = {}
        /\ \A k \in DOMAIN images_id :
              /\ images_id[k].files[1] \notin Range(duplicate_files)
              /\ CleanupStarts =>
                    \E q \in DOMAIN fs : fs[q].orig = images_id[k].files[1]

Next ==
    \/ main_start
    \/ \E i \in DOMAIN outer : directory_start(i)
    \/ \E i \in DOMAIN outer : \E k \in 1..MaxFiles : sign_start(i, k)
    \/ \E i \in DOMAIN outer : \E k \in 1..MaxFiles : sign_image(i, k)
    \/ \E i \in DOMAIN outer : directory_collect(i)
    \/ main_merge
    \/ main_plan
    \/ move_files
    \/ \E k \in DOMAIN mv : move_check(k)
    \/ \E k \in DOMAIN mv : move_exists(k)
    \/ \E k \in DOMAIN mv : move_rename(k)
    \/ remove_files
    \/ \E k \in DOMAIN rm : remove_start(k)
    \/ \E k \in DOMAIN rm : os_remove(k)
    \/ main_cleanup
    \/ main_return

\* a validated run ends: main() returns 0, or cleanup's exception leaves it
C18_Terminates == Validating ~> (Returned0 \/ pc = "error")

\* C18: a run that has passed validation reaches DONE under fair scheduling,
\* for every J and every number of directories: it is never in a state other
\* than DONE (main() has returned 0) in which no thread can take a step
C18_ReachesDone == Validating => (Returned0 \/ ENABLED Next)

Spec == Init /\ [][Next]_vars

\* every thread that can take a step eventually takes one
FairSpec == Spec /\ WF_vars(Next)

\* the runs in which the operating system may also refuse a move or a removal
NextFaults ==
    \/ Next
    \/ \E k \in DOMAIN mv : move_raises(k)
    \/ \E k \in DOMAIN rm : remove_raises(k)

SpecFaults == Init /\ [][NextFaults]_vars
=============================================================================
